---- MODULE Spec2Model ----
(***************************************************************************)
(* Model of the object-storage clients of ComfyUI-VideoHelperSuite:        *)
(*   S3Handler            (videohelpersuite/s3_utils.py)                   *)
(*   CloudStorageHandler  (videohelpersuite/cloud_storage_utils.py)        *)
(* Strings are sequences of one-character strings, so that path and key    *)
(* manipulation (basename, splitext, rstrip, slicing) is computed the way  *)
(* the Python code computes it.  Fixed texts that are never taken apart    *)
(* (bucket names, URL hosts, error texts) are single tokens.               *)
(***************************************************************************)
EXTENDS Integers, Sequences, FiniteSets, TLC

\* ------------------------------------------------------------------ bounds
MaxPrefixLen == 3
MaxAttempts == 3
MaxProbeFails == 4
MaxBatch == 2
MaxIndex == 1

\* ------------------------------------------------------- program constants
DefaultMaxAttempts == 5

\* ------------------------------------------------------------ string tools
SLASH == "/"
DOT == "."

RECURSIVE SeqsUpTo(_, _)
SeqsUpTo(S, n) ==
    IF n = 0 THEN {<< >>}
    ELSE LET shorter == SeqsUpTo(S, n - 1)
         IN  shorter \cup {Append(s, c) : s \in shorter, c \in S}

\* str.rfind(c) + 1 : position of the last c in s, 0 when there is none
RFind(s, c) ==
    LET hits == {j \in 1..Len(s) : s[j] = c}
    IN  IF hits = {} THEN 0 ELSE CHOOSE j \in hits : \A h \in hits : h <= j

\* os.path.basename
basename(p) == SubSeq(p, RFind(p, SLASH) + 1, Len(p))

\* os.path.dirname (posixpath): head up to the last slash, trailing slashes
\* of the head removed unless the head is made of slashes only
RECURSIVE rstrip(_, _)
rstrip(s, c) ==
    IF Len(s) > 0 /\ s[Len(s)] = c THEN rstrip(SubSeq(s, 1, Len(s) - 1), c) ELSE s

dirname(p) ==
    LET head == SubSeq(p, 1, RFind(p, SLASH))
    IN  IF head # << >> /\ rstrip(head, SLASH) # << >> THEN rstrip(head, SLASH) ELSE head

\* os.path.splitext (genericpath._splitext): split at the last dot unless it
\* lies before the last slash or only dots precede it in the last component
splitext(p) ==
    LET sepIndex == RFind(p, SLASH)
        dotIndex == RFind(p, DOT)
    IN  IF dotIndex > sepIndex /\ \E j \in (sepIndex + 1)..(dotIndex - 1) : p[j] # DOT
        THEN <<SubSeq(p, 1, dotIndex - 1), SubSeq(p, dotIndex, Len(p))>>
        ELSE <<p, << >> >>

\* str(int) for a non-negative int, as used by the f-string "{base}_{index}{ext}"
DigitChars == <<"0", "1", "2", "3", "4", "5", "6", "7", "8", "9">>
RECURSIVE IntToStr(_)
IntToStr(n) ==
    IF n < 10 THEN <<DigitChars[n + 1]>>
    ELSE IntToStr(n \div 10) \o <<DigitChars[(n % 10) + 1]>>

startswith(s, c) == Len(s) > 0 /\ s[1] = c
endswith(s, c) == Len(s) > 0 /\ s[Len(s)] = c
HasDoubleSlash(s) == \E j \in 1..(Len(s) - 1) : s[j] = SLASH /\ s[j + 1] = SLASH

\* Optional values: None is the empty tuple, a present value x is <<x>>.
\* For strings None and "" are both << >> (the code only tests truthiness).
None == << >>
Some(x) == <<x>>
NoneArg == <<"None">>          \* a Python None passed where a path is expected

\* ---------------------------------------------------------------- inputs
A_PNG == <<"a", ".", "p", "n", "g">>
B_PNG == <<"b", ".", "p", "n", "g">>
D_CLIP == <<"d", "/", "c">>
GONE_PNG == <<"x", ".", "p", "n", "g">>
T_PNG == <<"t", ".", "p", "n", "g">>

LocalFiles == {A_PNG, B_PNG, D_CLIP}           \* paths that exist on disk
FilePaths == LocalFiles \cup {GONE_PNG, NoneArg}
BatchPaths == {A_PNG, B_PNG, D_CLIP, GONE_PNG}
TargetNames == {None, T_PNG}
Prefixes == SeqsUpTo({"r", SLASH}, MaxPrefixLen)
BatchPrefixes == {None, <<"r">>}
Indexes == {None} \cup {Some(n) : n \in 0..MaxIndex}

LocalTargets == {<<"f">>, <<"d", "/", "f">>, <<"m", "/", "f">>, NoneArg}
ObjectKeys == {<<"k">>}

\* what the backend will do with the object that is being written: the put
\* fails or succeeds, and the object becomes visible to the existence probe
\* after k failed probes, or never
ProbePlans == {[never |-> TRUE, k |-> 0]} \cup {[never |-> FALSE, k |-> n] : n \in 0..MaxProbeFails}

DefaultBucket == <<"emprops-share">>

\* error texts (str(e) of the exception the library raises)
PutError == "put failed"
ProbeError == "Not Found"
GetError == "get failed"
MkdirError == "mkdir failed"
TypeErrorText == "expected str, bytes or os.PathLike object, not NoneType"
NoDirError == "[Errno 2] No such file or directory: ''"
NotListError == "Expected list of file paths"

Value(ok, msg) == [kind |-> "value", ok |-> ok, msg |-> msg]
Raised(msg) == [kind |-> "raise", ok |-> FALSE, msg |-> msg]
NoResult == [kind |-> "none", ok |-> FALSE, msg |-> << >>]

\* ------------------------------------------------------- key construction
\* S3Handler.upload_file: filename
S3Filename(file_path, index, target_name) ==
    LET filename == IF target_name # None THEN target_name ELSE basename(file_path)
    IN  IF index # None /\ target_name = None
        THEN splitext(filename)[1] \o <<"_">> \o IntToStr(index[1]) \o splitext(filename)[2]
        ELSE filename

\* S3Handler.upload_file: prefix normalisation and key
S3Key(s3_prefix, filename) ==
    LET p1 == rstrip(s3_prefix, SLASH) \o <<SLASH>>
        p2 == IF startswith(p1, SLASH) THEN Tail(p1) ELSE p1
    IN  IF s3_prefix # None
        THEN (IF p2 # << >> THEN p2 \o filename ELSE filename)
        ELSE filename

\* CloudStorageHandler.upload_file: filename
CloudFilename(file_path, index, target_name) ==
    LET filename == IF target_name # None THEN target_name ELSE basename(file_path)
    IN  IF index # None
        THEN splitext(filename)[1] \o <<"_">> \o IntToStr(index[1]) \o splitext(filename)[2]
        ELSE filename

\* CloudStorageHandler.upload_file: key
CloudKey(prefix, filename) ==
    IF prefix # None
    THEN (IF ~endswith(prefix, SLASH) THEN prefix \o <<SLASH>> ELSE prefix) \o filename
    ELSE filename

Filename(c, file_path, index, target_name) ==
    IF c = "S3Handler" THEN S3Filename(file_path, index, target_name)
    ELSE CloudFilename(file_path, index, target_name)

BuildKey(c, prefix, fname) ==
    IF c = "S3Handler" THEN S3Key(prefix, fname) ELSE CloudKey(prefix, fname)

\* os.path.abspath for the paths used here (no "." or ".." components)
Cwd == <<SLASH, "w">>
abspath(p) == IF startswith(p, SLASH) THEN p ELSE Cwd \o <<SLASH>> \o p

\* the local directories that exist before the first call
InitialDirs == {Cwd, abspath(<<"d">>)}

\* ------------------------------------------- environment and credentials
\* str.replace(old, new)
RECURSIVE replace(_, _, _)
replace(s, old, new) ==
    IF Len(s) < Len(old) THEN s
    ELSE IF SubSeq(s, 1, Len(old)) = old
    THEN new \o replace(SubSeq(s, Len(old) + 1, Len(s)), old, new)
    ELSE <<s[1]>> \o replace(Tail(s), old, new)

\* str.lower()
UpperChars == <<"A", "B", "C", "D", "E", "F", "G", "H", "I", "J", "K", "L", "M",
                "N", "O", "P", "Q", "R", "S", "T", "U", "V", "W", "X", "Y", "Z">>
LowerChars == <<"a", "b", "c", "d", "e", "f", "g", "h", "i", "j", "k", "l", "m",
                "n", "o", "p", "q", "r", "s", "t", "u", "v", "w", "x", "y", "z">>
LowerChar(c) ==
    IF \E j \in 1..Len(UpperChars) : UpperChars[j] = c
    THEN LowerChars[CHOOSE j \in 1..Len(UpperChars) : UpperChars[j] = c]
    ELSE c
lower(s) == [j \in 1..Len(s) |-> LowerChar(s[j])]

SLASH_TOKEN == <<"_", "S", "L", "A", "S", "H", "_">>

\* _process_secret_key
_process_secret_key(secret_key) ==
    IF secret_key # None THEN replace(secret_key, SLASH_TOKEN, <<SLASH>>) ELSE None

\* the variables of os.environ and of the .env files that the code reads;
\* a variable that is not set has the value None
EnvKeys ==
    {"CLOUD_PROVIDER", "CLOUD_STORAGE_TEST_CONTAINER", "STORAGE_TEST_MODE",
     "AWS_ACCESS_KEY_ID", "AWS_SECRET_ACCESS_KEY", "AWS_SECRET_ACCESS_KEY_ENCODED",
     "AWS_DEFAULT_REGION", "GOOGLE_APPLICATION_CREDENTIALS",
     "AZURE_STORAGE_ACCOUNT", "AZURE_STORAGE_KEY",
     "CLOUD_STORAGE_CONTAINER", "AZURE_STORAGE_CONTAINER"}

EmptyEnv == [k \in EnvKeys |-> None]
NoFile == [exists |-> FALSE, vars |-> EmptyEnv]

\* load_dotenv(path) with override=False: a variable of the file is set in
\* os.environ unless os.environ already has it
load_dotenv(env, file) ==
    [k \in EnvKeys |-> IF env[k] # None THEN env[k] ELSE file.vars[k]]

\* x or y
Or(x, y) == IF x # None THEN x ELSE y

DefaultRegion == <<"us-east-1">>

\* S3Handler.__init__ / _init_aws_handler: one .env file is consulted
AwsFileLayer(st, file) ==
    LET env1 == load_dotenv(st.env, file)
        sec1 == Or(st.secret_key, _process_secret_key(env1["AWS_SECRET_ACCESS_KEY_ENCODED"]))
        sec2 == IF sec1 = None THEN Or(sec1, env1["AWS_SECRET_ACCESS_KEY"]) ELSE sec1
    IN  [access_key |-> Or(st.access_key, env1["AWS_ACCESS_KEY_ID"]),
         secret_key |-> sec2,
         region |-> Or(st.region, env1["AWS_DEFAULT_REGION"]),
         env |-> env1]

AwsIncomplete(st) == st.access_key = None \/ st.secret_key = None \/ st.region = None

\* S3Handler.__init__ / _init_aws_handler: resolution of the credentials from
\* os.environ, .env and .env.local, up to the default region
AwsResolve(env, fs) ==
    LET sec0 == IF env["AWS_SECRET_ACCESS_KEY"] = None
                THEN _process_secret_key(env["AWS_SECRET_ACCESS_KEY_ENCODED"])
                ELSE env["AWS_SECRET_ACCESS_KEY"]
        st0 == [access_key |-> env["AWS_ACCESS_KEY_ID"], secret_key |-> sec0,
                region |-> env["AWS_DEFAULT_REGION"], env |-> env]
        st1 == IF AwsIncomplete(st0) /\ fs.env.exists THEN AwsFileLayer(st0, fs.env) ELSE st0
        st2 == IF AwsIncomplete(st0) /\ AwsIncomplete(st1) /\ fs.env_local.exists
               THEN AwsFileLayer(st1, fs.env_local) ELSE st1
    IN  [st2 EXCEPT !.region = Or(st2.region, DefaultRegion)]

\* variant of AwsMissing: only the access key is checked
AwsMissing_access_key_only(access_key, secret_key) ==
    IF access_key = None THEN <<"AWS_ACCESS_KEY_ID">> ELSE << >>

\* S3Handler.__init__ / _init_aws_handler: the list "missing"
AwsMissing(access_key, secret_key) ==
    (IF access_key = None THEN <<"AWS_ACCESS_KEY_ID">> ELSE << >>)
        \o (IF secret_key = None THEN <<"AWS_SECRET_ACCESS_KEY">> ELSE << >>)

\* _init_azure_handler: one .env file is consulted
AzureFileLayer(st, file) ==
    LET env1 == load_dotenv(st.env, file)
    IN  [account_name |-> Or(st.account_name, env1["AZURE_STORAGE_ACCOUNT"]),
         account_key |-> Or(st.account_key, env1["AZURE_STORAGE_KEY"]),
         container_name |->
             IF st.container_name = None
             THEN Or(Or(env1["CLOUD_STORAGE_CONTAINER"], env1["AZURE_STORAGE_CONTAINER"]),
                     <<"emprops-share">>)
             ELSE st.container_name,
         env |-> env1]

\* _init_azure_handler: the container name taken before the files are read
AzureContainerName(self_bucket_name, env) ==
    IF self_bucket_name # None THEN self_bucket_name
    ELSE IF env["CLOUD_STORAGE_CONTAINER"] # None THEN env["CLOUD_STORAGE_CONTAINER"]
    ELSE Or(env["AZURE_STORAGE_CONTAINER"], <<"emprops-share">>)

\* _init_azure_handler: resolution of account, key and container from
\* os.environ and the four .env files
AzureResolve(self_bucket_name, env, fs) ==
    LET st0 == [account_name |-> env["AZURE_STORAGE_ACCOUNT"],
                account_key |-> env["AZURE_STORAGE_KEY"],
                container_name |-> AzureContainerName(self_bucket_name, env),
                env |-> env]
        st1 == IF fs.env.exists THEN AzureFileLayer(st0, fs.env) ELSE st0
        st2 == IF fs.env_local.exists THEN AzureFileLayer(st1, fs.env_local) ELSE st1
        dir == fs.emprops_env.exists \/ fs.emprops_env_local.exists
        st3 == IF dir /\ fs.emprops_env.exists THEN AzureFileLayer(st2, fs.emprops_env) ELSE st2
        st4 == IF dir /\ fs.emprops_env_local.exists
               THEN AzureFileLayer(st3, fs.emprops_env_local) ELSE st3
    IN  IF st0.account_name = None \/ st0.account_key = None THEN st4 ELSE st0

\* _init_azure_handler: the list "missing"
AzureMissing(acc_name, acc_key) ==
    (IF acc_name = None THEN <<"AZURE_STORAGE_ACCOUNT">> ELSE << >>)
        \o (IF acc_key = None THEN <<"AZURE_STORAGE_KEY">> ELSE << >>)

\* _init_gcs_handler: resolution of the credentials path
GcsResolve(env, fs) ==
    LET c0 == env["GOOGLE_APPLICATION_CREDENTIALS"]
        env1 == IF c0 = None /\ fs.env.exists THEN load_dotenv(env, fs.env) ELSE env
        c1 == IF c0 = None /\ fs.env.exists THEN env1["GOOGLE_APPLICATION_CREDENTIALS"] ELSE c0
        env2 == IF c0 = None /\ c1 = None /\ fs.env_local.exists
                THEN load_dotenv(env1, fs.env_local) ELSE env1
        c2 == IF c0 = None /\ c1 = None /\ fs.env_local.exists
              THEN env2["GOOGLE_APPLICATION_CREDENTIALS"] ELSE c1
    IN  [credentials_path |-> c2, env |-> env2]

\* ", ".join(missing)
RECURSIVE join(_)
join(names) ==
    IF names = << >> THEN << >>
    ELSE IF Len(names) = 1 THEN names
    ELSE <<names[1], ", ">> \o join(Tail(names))

\* CloudStorageHandler.__init__: self.provider
PA == <<"a", "w", "s">>
PG == <<"g", "o", "o", "g", "l", "e">>
PZ == <<"a", "z", "u", "r", "e">>
ResolveProvider(provider_arg, env) ==
    LET p == IF provider_arg # None THEN provider_arg
             ELSE lower(Or(env["CLOUD_PROVIDER"], PA))
    IN  IF p = PG THEN "google" ELSE IF p = PZ THEN "azure" ELSE "aws"

\* CloudStorageHandler.__init__: the test-mode block; "unset" when the
\* attribute self.test_mode is not assigned
TRUE_STR == <<"t", "r", "u", "e">>
ResolveTestMode(prov, env) ==
    IF env["CLOUD_STORAGE_TEST_CONTAINER"] # None /\ prov = "azure" THEN "unset"
    ELSE IF lower(Or(env["STORAGE_TEST_MODE"], <<"f", "a", "l", "s", "e">>)) = TRUE_STR THEN "true"
    ELSE "false"

\* CloudStorageHandler.__init__: self.bucket_name; reading the unassigned
\* attribute self.test_mode raises AttributeError
ResolveBucket(bucket_arg, test_mode) ==
    IF bucket_arg # None THEN [raised |-> FALSE, name |-> bucket_arg]
    ELSE IF test_mode = "unset" THEN [raised |-> TRUE, name |-> DefaultBucket]
    ELSE IF test_mode = "true" THEN [raised |-> FALSE, name |-> DefaultBucket \o <<"-test">>]
    ELSE [raised |-> FALSE, name |-> DefaultBucket]

\* _init_azure_handler: get_container_properties returned, or raised
AfterCheck(chk) == IF chk = "ok" THEN "use" ELSE "create"

\* _init_azure_handler: create_container returned, or raised
AfterCreate(crt) == IF crt = "ok" THEN "constructed" ELSE "failed"

\* ------------------------------------------------------------------ state
VARIABLES
    cls,            \* class of the constructed client
    provider,       \* self.provider
    bucket_name,    \* self.bucket_name
    environ,        \* os.environ, the variables the code reads
    account_name,   \* the Azure account name resolved by _init_azure_handler
    args,           \* __init__: the arguments provider and bucket_name
    files,          \* the .env files the constructor looks for
    cinit,          \* __init__: position, locals and outcome of the constructor
    az,             \* per Azure construction: container check and creation
    container,      \* the Azure container exists in the storage account
    dirs,           \* local directories that exist
    pc,             \* position of the running call
    op,             \* the public method the caller invoked
    file_paths,     \* upload_files: the file_paths argument
    batch_prefix,   \* upload_files: the s3_prefix argument
    i,              \* upload_files: position of the comprehension
    results,        \* upload_files: the list built so far
    log,            \* per finished element of the batch, what happened to it
    cur,            \* upload_file: its arguments
    filename,       \* upload_file: filename
    key,            \* upload_file: s3_key / key ; verify: key
    plan,           \* what the backend does with the object being written
    max_attempts,   \* verify: max_attempts
    attempt,        \* verify: attempt
    vret,           \* how the verification loop ended
    ret,            \* what the public method gave its caller
    dl,             \* download_file: its arguments
    puts,           \* backend puts issued by the running upload_file
    gets,           \* backend gets issued by the running download_file
    probes,         \* existence probes issued by the running verification
    sleeps,         \* time.sleep(delay) calls of the running verification
    mkdirs,         \* os.makedirs calls of the running download_file
    getRes,         \* outcome of the get of the running download_file
    mkdirRes,       \* outcome of os.makedirs in the running download_file
    fileOk,         \* the local file of the running upload_file exists
    putRes,         \* outcome of the put of the running upload_file
    probeHit        \* an existence probe of the running verification succeeded

ctorvars == <<args, files, cinit, az, container>>
client == <<cls, provider, bucket_name, environ, account_name, ctorvars>>
batch == <<file_paths, batch_prefix, i, results, log>>
upl == <<cur, filename, key>>
ver == <<max_attempts, attempt, vret>>
hist == <<puts, gets, probes, sleeps, mkdirs, getRes, mkdirRes, fileOk, putRes, probeHit>>
opvars == <<dirs, pc, op, batch, upl, plan, ver, ret, dl, hist>>
vars == <<client, opvars>>

NoArgs == [file_path |-> None, prefix |-> None, index |-> None, target_name |-> None]
NoList == [isList |-> TRUE, items |-> << >>]
NoPlan == [never |-> TRUE, k |-> 0]
NoDownload == [key |-> None, local_path |-> None]

NoCtorArgs == [provider |-> None, bucket_name |-> None]
NoFiles == [env |-> NoFile, env_local |-> NoFile,
            emprops_env |-> NoFile, emprops_env_local |-> NoFile]
NoCreds == [access_key |-> None, secret_key |-> None, region |-> None,
            account_key |-> None, credentials_path |-> None]
NoError == [type |-> "none", msg |-> << >>]
AzIdle == [pc |-> "idle", chk |-> "none", creates |-> 0, crt |-> "none", outcome |-> "none"]
Constructors == {1, 2}

\* no call is running
OpIdle ==
    /\ dirs = InitialDirs
    /\ pc = "idle"
    /\ op = "none"
    /\ file_paths = NoList /\ batch_prefix = None /\ i = 0
    /\ results = << >> /\ log = << >>
    /\ cur = NoArgs /\ filename = None /\ key = None
    /\ plan = NoPlan
    /\ max_attempts = 0 /\ attempt = 0 /\ vret = "none"
    /\ ret = NoResult
    /\ dl = NoDownload
    /\ puts = 0 /\ gets = 0 /\ probes = 0 /\ sleeps = 0 /\ mkdirs = 0
    /\ getRes = "none" /\ mkdirRes = "none"
    /\ fileOk = FALSE /\ putRes = "none" /\ probeHit = FALSE

\* a client whose construction has succeeded
Init ==
    /\ \/ cls = "S3Handler" /\ provider = "aws"
       \/ cls = "CloudStorageHandler" /\ provider \in {"aws", "google", "azure"}
    /\ bucket_name = DefaultBucket
    /\ environ = [EmptyEnv EXCEPT !["AZURE_STORAGE_ACCOUNT"] = <<"acct">>]
    /\ account_name = <<"acct">>
    /\ args = NoCtorArgs
    /\ files = NoFiles
    /\ cinit = [pc |-> "constructed", test_mode |-> "false", creds |-> NoCreds,
                container_name |-> None, handle |-> TRUE, resolved |-> TRUE,
                error |-> NoError, environ0 |-> environ]
    /\ az = [p \in Constructors |-> AzIdle]
    /\ container = TRUE
    /\ OpIdle

\* ------------------------------------------------------ verification loop
\* S3Handler.verify_s3_upload: one iteration of the for loop, given whether
\* head_object succeeded
verify_s3_upload_step(visible, att, maxAtt) ==
    IF visible THEN "return_true"
    ELSE IF att < maxAtt - 1 THEN "sleep"
    ELSE "raise"

\* variant of verify_upload_step: a positive probe ends the loop only on the
\* last attempt
verify_upload_step_late_return(visible, att, maxAtt) ==
    IF att < maxAtt - 1 THEN "sleep"
    ELSE IF visible THEN "return_true"
    ELSE "return_false"

\* CloudStorageHandler.verify_upload: one iteration of the for loop
verify_upload_step(visible, att, maxAtt) ==
    IF visible THEN "return_true"
    ELSE IF att < maxAtt - 1 THEN "sleep"
    ELSE "return_false"

\* the object is visible to the probe that follows n failed probes
Visible(p, n) == ~p.never /\ n >= p.k

\* ------------------------------------------------------- results of calls
\* variant of S3Except: the exception is not caught
S3Except_uncaught(e) == Raised(<<e>>)

\* S3Handler.upload_file: except Exception as e: return False, str(e)
S3Except(e) == Value(FALSE, <<e>>)

\* CloudStorageHandler.upload_file: except Exception
CloudUploadExcept(e) == Value(FALSE, <<"Error uploading file: ", e>>)

\* CloudStorageHandler.download_file: except Exception
CloudDownloadExcept(e) == Value(FALSE, <<"Error downloading file: ", e>>)

UploadExcept(c, e) == IF c = "S3Handler" THEN S3Except(e) ELSE CloudUploadExcept(e)
DownloadExcept(c, e) == IF c = "S3Handler" THEN S3Except(e) ELSE CloudDownloadExcept(e)

NotFound(file_path) == Value(FALSE, <<"File not found: ">> \o file_path)

\* S3Handler.upload_file after the put: verification and URL
S3AfterVerify(v, bucket, k) ==
    IF v = "raise" THEN S3Except(ProbeError)
    ELSE IF v = "false" THEN Value(FALSE, <<"Failed to verify upload of ">> \o k)
    ELSE Value(TRUE, <<"https://">> \o bucket \o <<".s3.amazonaws.com/">> \o k)

\* f"{x}" of a value that may be None
Fmt(x) == IF x = None THEN <<"None">> ELSE x

\* variant of CloudAfterVerify: the outcome of the verification is ignored
CloudAfterVerify_unchecked(prov, v, bucket, env, k) ==
    IF prov = "aws"
    THEN Value(TRUE, <<"https://">> \o bucket \o <<".s3.amazonaws.com/">> \o k)
    ELSE IF prov = "google"
    THEN Value(TRUE, <<"https://storage.googleapis.com/">> \o bucket \o <<SLASH>> \o k)
    ELSE Value(TRUE, <<"https://">> \o Fmt(env["AZURE_STORAGE_ACCOUNT"]) \o <<".blob.core.windows.net/">>
                      \o bucket \o <<SLASH>> \o k)

\* CloudStorageHandler.upload_file after the put, per provider
CloudAfterVerify(prov, v, bucket, env, k) ==
    IF prov = "aws"
    THEN (IF v = "true" THEN Value(TRUE, <<"https://">> \o bucket \o <<".s3.amazonaws.com/">> \o k)
          ELSE Value(FALSE, <<"Failed to verify AWS S3 upload">>))
    ELSE IF prov = "google"
    THEN (IF v = "true" THEN Value(TRUE, <<"https://storage.googleapis.com/">> \o bucket \o <<SLASH>> \o k)
          ELSE Value(FALSE, <<"Failed to verify Google Cloud Storage upload">>))
    ELSE (IF v = "true"
          THEN Value(TRUE, <<"https://">> \o Fmt(env["AZURE_STORAGE_ACCOUNT"]) \o <<".blob.core.windows.net/">>
                            \o bucket \o <<SLASH>> \o k)
          ELSE Value(FALSE, <<"Failed to verify Azure Blob Storage upload">>))

\* variant of BatchIndex: the position is passed for every list
BatchIndex_always(n, len) == Some(n)

\* upload_files: the index handed to upload_file for position n of a list of length len
BatchIndex(n, len) == IF len > 1 THEN Some(n) ELSE None

\* variant of Collect: the newest result is put first
Collect_prepend(rs, r) == <<r>> \o rs

\* upload_files: the list comprehension collects the results in order
Collect(rs, r) == Append(rs, r)

\* variant of exists: the check is missing
exists_unchecked(file_path) == TRUE

\* os.path.exists(file_path)
exists(file_path) == file_path \in LocalFiles

\* the directory os.makedirs is asked to create
S3DownloadDir(local_path) == dirname(local_path)
CloudDownloadDir(local_path) == dirname(abspath(local_path))
DownloadDir(c, local_path) ==
    IF c = "S3Handler" THEN S3DownloadDir(local_path) ELSE CloudDownloadDir(local_path)

\* variant of AfterPut: the error of the put is swallowed
AfterPut_swallowed(ok) == "verify"

\* a raised put leaves the try body; a returned put is followed by verification
AfterPut(ok) == IF ok THEN "verify" ELSE "except"

VerifyStep(c, visible, att, maxAtt) ==
    IF c = "S3Handler" THEN verify_s3_upload_step(visible, att, maxAtt)
    ELSE verify_upload_step(visible, att, maxAtt)

AfterVerify(c, prov, v, bucket, env, k) ==
    IF c = "S3Handler" THEN S3AfterVerify(v, bucket, k)
    ELSE CloudAfterVerify(prov, v, bucket, env, k)

BatchArgs ==
    {[isList |-> TRUE, items |-> s] : s \in SeqsUpTo(BatchPaths, MaxBatch)}
        \cup {[isList |-> FALSE, items |-> << >>]}

ListResult == [kind |-> "list", ok |-> TRUE, msg |-> << >>]

\* ---------------------------------------------------------------- actions
\* the caller invokes verify_s3_upload / verify_upload directly
call_verify ==
    /\ pc = "idle"
    /\ \E n \in 0..MaxAttempts, p \in ProbePlans, k \in ObjectKeys :
          /\ op' = "verify"
          /\ key' = k
          /\ plan' = p
          /\ max_attempts' = n
    /\ attempt' = 0
    /\ pc' = "vf_probe"
    /\ UNCHANGED <<client, dirs, batch, cur, filename, vret, ret, dl, hist>>

\* the caller invokes upload_file
call_upload_file ==
    /\ pc = "idle"
    /\ \E fp \in FilePaths, pre \in Prefixes, ix \in Indexes, tn \in TargetNames :
          cur' = [file_path |-> fp, prefix |-> pre, index |-> ix, target_name |-> tn]
    /\ op' = "upload_file"
    /\ pc' = "uf_begin"
    /\ UNCHANGED <<client, dirs, batch, filename, key, plan, ver, ret, dl, hist>>

\* the caller invokes upload_files: the isinstance check
call_upload_files ==
    /\ pc = "idle"
    /\ op' = "upload_files"
    /\ \E arg \in BatchArgs, pre \in BatchPrefixes :
          /\ cls = "S3Handler"
          /\ file_paths' = arg
          /\ batch_prefix' = pre
          /\ IF arg.isList
             THEN pc' = "ufs_loop" /\ UNCHANGED ret
             ELSE pc' = "done" /\ ret' = Raised(<<NotListError>>)
    /\ UNCHANGED <<client, dirs, i, results, log, upl, plan, ver, dl, hist>>

\* upload_files: the comprehension calls upload_file for the next element
upload_files_next ==
    /\ pc = "ufs_loop"
    /\ i < Len(file_paths.items)
    /\ cur' = [file_path |-> file_paths.items[i + 1], prefix |-> batch_prefix,
               index |-> BatchIndex(i, Len(file_paths.items)), target_name |-> None]
    /\ filename' = None /\ key' = None
    /\ puts' = 0 /\ probes' = 0 /\ sleeps' = 0
    /\ fileOk' = FALSE /\ putRes' = "none" /\ probeHit' = FALSE
    /\ pc' = "uf_begin"
    /\ UNCHANGED <<client, dirs, op, batch, plan, ver, ret, dl, gets, mkdirs, getRes, mkdirRes>>

\* upload_files: the comprehension is exhausted, the list is returned
upload_files_return ==
    /\ pc = "ufs_loop"
    /\ i >= Len(file_paths.items)
    /\ ret' = ListResult
    /\ pc' = "done"
    /\ UNCHANGED <<client, dirs, op, batch, upl, plan, ver, dl, hist>>

\* upload_file gives r to its caller: the comprehension of upload_files
\* (a raised exception leaves the comprehension) or the outside caller
UploadFileReturns(r, entry) ==
    IF op = "upload_files" /\ r.kind # "raise"
    THEN /\ results' = Collect(results, r)
         /\ log' = Append(log, entry)
         /\ i' = i + 1
         /\ pc' = "ufs_loop"
         /\ UNCHANGED <<ret, file_paths, batch_prefix>>
    ELSE /\ ret' = r
         /\ pc' = "done"
         /\ UNCHANGED batch

LogEntry(fp, e, p, h) == [path |-> fp, exists |-> e, put |-> p, verified |-> h]

\* upload_file up to the put: existence check, filename, prefix, key
upload_file_begin ==
    /\ pc = "uf_begin"
    /\ IF cur.file_path = NoneArg
       THEN /\ UploadFileReturns(UploadExcept(cls, TypeErrorText),
                                 LogEntry(cur.file_path, FALSE, "none", FALSE))
            /\ UNCHANGED <<filename, key, fileOk>>
       ELSE IF ~exists(cur.file_path)
       THEN /\ UploadFileReturns(NotFound(cur.file_path),
                                 LogEntry(cur.file_path, FALSE, "none", FALSE))
            /\ UNCHANGED <<filename, key, fileOk>>
       ELSE /\ fileOk' = TRUE
            /\ filename' = Filename(cls, cur.file_path, cur.index, cur.target_name)
            /\ key' = BuildKey(cls, cur.prefix, Filename(cls, cur.file_path, cur.index, cur.target_name))
            /\ pc' = "uf_put"
            /\ UNCHANGED <<batch, ret>>
    /\ UNCHANGED <<client, dirs, op, cur, plan, ver, dl, puts, gets, probes, sleeps, mkdirs,
                   getRes, mkdirRes, putRes, probeHit>>

\* upload_file: the backend put (upload_file / upload_fileobj /
\* upload_from_filename / upload_blob) returns or raises
\* (a constructed CloudStorageHandler always holds the handler of its
\* provider, __init__ raises otherwise, so the "No handler available"
\* branches of upload_file, download_file and verify_upload are not taken)
backend_put ==
    /\ pc = "uf_put"
    /\ puts' = puts + 1
    /\ \E ok \in BOOLEAN, p \in ProbePlans :
          /\ putRes' = IF ok THEN "ok" ELSE "err"
          /\ IF AfterPut(ok) = "verify"
             THEN /\ plan' = (IF ok THEN p ELSE NoPlan)
                  /\ max_attempts' = DefaultMaxAttempts
                  /\ attempt' = 0
                  /\ pc' = "vf_probe"
                  /\ UNCHANGED <<batch, ret>>
             ELSE /\ p = NoPlan
                  /\ UploadFileReturns(UploadExcept(cls, PutError),
                                       LogEntry(cur.file_path, TRUE, "err", FALSE))
                  /\ UNCHANGED <<plan, max_attempts, attempt>>
    /\ UNCHANGED <<client, dirs, op, upl, vret, dl, gets, probes, sleeps, mkdirs, getRes, mkdirRes,
                   fileOk, probeHit>>

\* verification loop: the next iteration issues the existence probe, or the
\* range is exhausted and the function falls through to "return False"
verify_probe ==
    /\ pc = "vf_probe"
    /\ IF attempt < max_attempts
       THEN LET visible == Visible(plan, probes)
                step == VerifyStep(cls, visible, attempt, max_attempts)
            IN  /\ probes' = probes + 1
                /\ probeHit' = (probeHit \/ visible)
                /\ pc' = IF step = "sleep" THEN "vf_sleep" ELSE "vf_ret"
                /\ vret' = CASE step = "return_true" -> "true"
                             [] step = "return_false" -> "false"
                             [] step = "raise" -> "raise"
                             [] OTHER -> vret
       ELSE /\ vret' = "false"
            /\ pc' = "vf_ret"
            /\ UNCHANGED <<probes, probeHit>>
    /\ UNCHANGED <<client, dirs, op, batch, upl, plan, max_attempts, attempt, ret, dl,
                   puts, gets, sleeps, mkdirs, getRes, mkdirRes, fileOk, putRes>>

\* verification loop: time.sleep(delay), then the next value of the range
verify_sleep ==
    /\ pc = "vf_sleep"
    /\ sleeps' = sleeps + 1
    /\ attempt' = attempt + 1
    /\ pc' = "vf_probe"
    /\ UNCHANGED <<client, dirs, op, batch, upl, plan, max_attempts, vret, ret, dl,
                   puts, gets, probes, mkdirs, getRes, mkdirRes, fileOk, putRes, probeHit>>

\* the verification loop gives its outcome to its caller: the outside
\* caller, or upload_file, which turns it into its own result
verify_return ==
    /\ pc = "vf_ret"
    /\ IF op = "verify"
       THEN /\ ret' = IF vret = "raise" THEN Raised(<<ProbeError>>)
                      ELSE Value(vret = "true", << >>)
            /\ pc' = "done"
            /\ UNCHANGED batch
       ELSE UploadFileReturns(AfterVerify(cls, provider, vret, bucket_name, environ, key),
                              LogEntry(cur.file_path, TRUE, putRes, probeHit))
    /\ UNCHANGED <<client, dirs, op, upl, plan, ver, dl, hist>>

\* the caller invokes download_file
call_download_file ==
    /\ pc = "idle"
    /\ op' = "download_file"
    /\ \E k \in ObjectKeys, lp \in LocalTargets : dl' = [key |-> k, local_path |-> lp]
    /\ pc' = "df_makedirs"
    /\ UNCHANGED <<client, dirs, batch, upl, plan, ver, ret, hist>>

\* download_file: os.makedirs(os.path.dirname(...), exist_ok=True)
download_makedirs ==
    /\ pc = "df_makedirs"
    /\ IF dl.local_path = NoneArg
       THEN /\ ret' = DownloadExcept(cls, TypeErrorText)
            /\ pc' = "done"
            /\ UNCHANGED <<dirs, mkdirs, mkdirRes>>
       ELSE LET d == DownloadDir(cls, dl.local_path)
            IN  /\ mkdirs' = mkdirs + 1
                /\ IF d = << >>
                   THEN /\ ret' = DownloadExcept(cls, NoDirError)
                        /\ mkdirRes' = "err"
                        /\ pc' = "done"
                        /\ UNCHANGED dirs
                   ELSE IF abspath(d) \in dirs
                   THEN /\ mkdirRes' = "ok"
                        /\ pc' = "df_get"
                        /\ UNCHANGED <<dirs, ret>>
                   ELSE \/ /\ dirs' = dirs \cup {abspath(d)}
                           /\ mkdirRes' = "ok"
                           /\ pc' = "df_get"
                           /\ UNCHANGED ret
                        \/ /\ ret' = DownloadExcept(cls, MkdirError)
                           /\ mkdirRes' = "err"
                           /\ pc' = "done"
                           /\ UNCHANGED dirs
    /\ UNCHANGED <<client, op, batch, upl, plan, ver, dl, puts, gets, probes, sleeps,
                   getRes, fileOk, putRes, probeHit>>

\* download_file: the backend get (download_file / download_to_filename /
\* download_blob) returns or raises
download_get ==
    /\ pc = "df_get"
    /\ gets' = gets + 1
    /\ \E ok \in BOOLEAN :
          /\ getRes' = IF ok THEN "ok" ELSE "err"
          /\ ret' = IF ok THEN Value(TRUE, << >>) ELSE DownloadExcept(cls, GetError)
    /\ pc' = "done"
    /\ UNCHANGED <<client, dirs, op, batch, upl, plan, ver, dl, puts, probes, sleeps,
                   mkdirs, mkdirRes, fileOk, putRes, probeHit>>

\* between two calls the host process changes or removes the variable
\* AZURE_STORAGE_ACCOUNT of os.environ
EnvAccounts == {<<"acct">>, <<"other">>, None}

setenv ==
    /\ pc = "idle"
    /\ \E v \in EnvAccounts :
          /\ v # environ["AZURE_STORAGE_ACCOUNT"]
          /\ environ' = [environ EXCEPT !["AZURE_STORAGE_ACCOUNT"] = v]
    /\ UNCHANGED <<cls, provider, bucket_name, account_name, ctorvars, dirs, pc, op, batch,
                   upl, plan, ver, ret, dl, hist>>

\* the call is over; the client is ready for the next one
finish ==
    /\ pc = "done"
    /\ pc' = "idle"
    /\ op' = "none"
    /\ file_paths' = NoList /\ batch_prefix' = None /\ i' = 0
    /\ results' = << >> /\ log' = << >>
    /\ cur' = NoArgs /\ filename' = None /\ key' = None
    /\ plan' = NoPlan
    /\ max_attempts' = 0 /\ attempt' = 0 /\ vret' = "none"
    /\ ret' = NoResult
    /\ dl' = NoDownload
    /\ puts' = 0 /\ gets' = 0 /\ probes' = 0 /\ sleeps' = 0 /\ mkdirs' = 0
    /\ getRes' = "none" /\ mkdirRes' = "none"
    /\ fileOk' = FALSE /\ putRes' = "none" /\ probeHit' = FALSE
    /\ UNCHANGED <<client, dirs>>

Next ==
    \/ call_verify
    \/ call_upload_file
    \/ call_upload_files
    \/ call_download_file
    \/ upload_files_next
    \/ upload_files_return
    \/ upload_file_begin
    \/ backend_put
    \/ verify_probe
    \/ verify_sleep
    \/ verify_return
    \/ download_makedirs
    \/ download_get
    \/ setenv
    \/ finish

Spec == Init /\ [][Next]_vars

\* ------------------------------------------------------------ construction
\* environments, files and arguments the constructor is run with
EnvOf(m) == [k \in EnvKeys |-> IF k \in DOMAIN m THEN m[k] ELSE None]
FileOf(m) == [exists |-> TRUE, vars |-> EnvOf(m)]

\* values are tagged with the source they come from: e(nvironment), f (.env),
\* l (.env.local), m and n (the files of emprops_comfy_nodes)
EncodedSecret(t) == <<t>> \o SLASH_TOKEN \o <<"x">>
AwsFiles(t) ==
    {NoFile} \cup
    {FileOf([AWS_ACCESS_KEY_ID |-> a, AWS_SECRET_ACCESS_KEY |-> sk,
             AWS_SECRET_ACCESS_KEY_ENCODED |-> e]) :
        a \in {None, <<t, "AK">>}, sk \in {None, <<t, "S">>}, e \in {None, EncodedSecret(t)}}
AzureFiles(t) ==
    {NoFile} \cup
    {FileOf([AZURE_STORAGE_ACCOUNT |-> a, AZURE_STORAGE_KEY |-> k]) :
        a \in {None, <<t, "acct">>}, k \in {None, <<t, "key">>}}
AzureFullFile(t) ==
    {NoFile, FileOf([AZURE_STORAGE_ACCOUNT |-> <<t, "acct">>, AZURE_STORAGE_KEY |-> <<t, "key">>])}

TestContainers == {None, <<"tc">>}
TestModes == {None, <<"T", "r", "u", "e">>, <<"f", "a", "l", "s", "e">>}
BucketArgs == {None, <<"mybucket">>}

S3HandlerScenarios ==
    {[cls |-> "S3Handler",
      args |-> [provider |-> None, bucket_name |-> b],
      env |-> EnvOf([AWS_ACCESS_KEY_ID |-> a, AWS_SECRET_ACCESS_KEY |-> sk,
                     AWS_SECRET_ACCESS_KEY_ENCODED |-> e, AWS_DEFAULT_REGION |-> r]),
      files |-> [NoFiles EXCEPT !.env = f, !.env_local = l],
      container |-> FALSE] :
        b \in BucketArgs, a \in {None, <<"e", "AK">>}, sk \in {None, <<"e", "S">>},
        e \in {None, EncodedSecret("e")}, r \in {None, <<"eu">>},
        f \in AwsFiles("f"), l \in AwsFiles("l")}

CloudAwsScenarios ==
    {[cls |-> "CloudStorageHandler",
      args |-> [provider |-> pa[1], bucket_name |-> b],
      env |-> EnvOf([CLOUD_PROVIDER |-> pa[2], CLOUD_STORAGE_TEST_CONTAINER |-> tc,
                     STORAGE_TEST_MODE |-> tm,
                     AWS_ACCESS_KEY_ID |-> a, AWS_SECRET_ACCESS_KEY |-> sk,
                     AWS_SECRET_ACCESS_KEY_ENCODED |-> e, AWS_DEFAULT_REGION |-> <<"eu">>]),
      files |-> [NoFiles EXCEPT !.env = f],
      container |-> FALSE] :
        pa \in {<<None, None>>, <<PA, None>>, <<None, <<"f", "t", "p">> >>},
        b \in BucketArgs, tc \in TestContainers, tm \in TestModes,
        a \in {None, <<"e", "AK">>}, sk \in {None, <<"e", "S">>},
        e \in {None, EncodedSecret("e")}, f \in AwsFiles("f")}

CloudGcsScenarios ==
    {[cls |-> "CloudStorageHandler",
      args |-> [provider |-> pa[1], bucket_name |-> b],
      env |-> EnvOf([CLOUD_PROVIDER |-> pa[2], CLOUD_STORAGE_TEST_CONTAINER |-> tc,
                     STORAGE_TEST_MODE |-> tm, GOOGLE_APPLICATION_CREDENTIALS |-> g]),
      files |-> [NoFiles EXCEPT !.env = f, !.env_local = l],
      container |-> FALSE] :
        pa \in {<<PG, None>>, <<None, <<"G", "o", "o", "g", "l", "e">> >>},
        b \in BucketArgs, tc \in TestContainers, tm \in TestModes,
        g \in {None, <<"e", "sa.json">>},
        f \in {NoFile, FileOf([GOOGLE_APPLICATION_CREDENTIALS |-> <<"f", "sa.json">>])},
        l \in {NoFile, FileOf([GOOGLE_APPLICATION_CREDENTIALS |-> <<"l", "sa.json">>])}}

CloudAzureScenarios ==
    {[cls |-> "CloudStorageHandler",
      args |-> [provider |-> pa[1], bucket_name |-> b],
      env |-> EnvOf([CLOUD_PROVIDER |-> pa[2], CLOUD_STORAGE_TEST_CONTAINER |-> tc,
                     STORAGE_TEST_MODE |-> tm,
                     AZURE_STORAGE_ACCOUNT |-> a, AZURE_STORAGE_KEY |-> k,
                     CLOUD_STORAGE_CONTAINER |-> cc, AZURE_STORAGE_CONTAINER |-> ac]),
      files |-> [env |-> f, env_local |-> l, emprops_env |-> m, emprops_env_local |-> NoFile],
      container |-> ex] :
        pa \in {<<PZ, None>>, <<None, <<"A", "z", "u", "r", "e">> >>},
        b \in BucketArgs, tc \in TestContainers, tm \in TestModes,
        a \in {None, <<"e", "acct">>}, k \in {None, <<"e", "key">>},
        cc \in {None, <<"cloud-container">>}, ac \in {None, <<"azure-container">>},
        f \in AzureFiles("f"), l \in AzureFullFile("l"), m \in AzureFullFile("m"),
        ex \in BOOLEAN}

Scenarios == S3HandlerScenarios \cup CloudAwsScenarios \cup CloudGcsScenarios \cup CloudAzureScenarios

\* the process is about to call S3Handler(...) or CloudStorageHandler(...)
InitCtor ==
    /\ \E sc \in Scenarios :
          /\ cls = sc.cls
          /\ args = sc.args
          /\ environ = sc.env
          /\ files = sc.files
          /\ container = sc.container
    /\ provider = "none"
    /\ bucket_name = None
    /\ account_name = None
    /\ cinit = [pc |-> "new", test_mode |-> "unset", creds |-> NoCreds,
                container_name |-> None, handle |-> FALSE, resolved |-> FALSE,
                error |-> NoError, environ0 |-> environ]
    /\ az = [p \in Constructors |-> AzIdle]
    /\ OpIdle

\* S3Handler.__init__: self.bucket_name
s3_init_bucket ==
    /\ cls = "S3Handler" /\ cinit.pc = "new"
    /\ bucket_name' = Or(args.bucket_name, DefaultBucket)
    /\ provider' = "aws"
    /\ cinit' = [cinit EXCEPT !.pc = "bucket"]
    /\ UNCHANGED <<cls, environ, account_name, args, files, az, container, opvars>>

\* CloudStorageHandler.__init__: self.provider
init_provider ==
    /\ cls = "CloudStorageHandler" /\ cinit.pc = "new"
    /\ provider' = ResolveProvider(args.provider, environ)
    /\ cinit' = [cinit EXCEPT !.pc = "provider"]
    /\ UNCHANGED <<cls, bucket_name, environ, account_name, args, files, az, container, opvars>>

\* CloudStorageHandler.__init__: the test-mode block
init_test_mode ==
    /\ cinit.pc = "provider"
    /\ cinit' = [cinit EXCEPT !.pc = "test_mode",
                              !.test_mode = ResolveTestMode(provider, environ)]
    /\ bucket_name' = IF ResolveTestMode(provider, environ) = "unset"
                      THEN environ["CLOUD_STORAGE_TEST_CONTAINER"] ELSE bucket_name
    /\ UNCHANGED <<cls, provider, environ, account_name, args, files, az, container, opvars>>

\* CloudStorageHandler.__init__: self.bucket_name
init_bucket ==
    /\ cinit.pc = "test_mode"
    /\ LET b == ResolveBucket(args.bucket_name, cinit.test_mode)
       IN  /\ bucket_name' = b.name
           /\ cinit' = IF b.raised
                       THEN [cinit EXCEPT !.pc = "failed",
                                          !.error = [type |-> "AttributeError",
                                                     msg |-> <<"'CloudStorageHandler' object has no attribute 'test_mode'">>]]
                       ELSE [cinit EXCEPT !.pc = "bucket"]
    /\ UNCHANGED <<cls, provider, environ, account_name, args, files, az, container, opvars>>

\* S3Handler.__init__ / CloudStorageHandler._init_aws_handler
init_aws_handler ==
    /\ cinit.pc = "bucket" /\ provider = "aws"
    /\ LET st == AwsResolve(environ, files)
           missing == AwsMissing(st.access_key, st.secret_key)
       IN  /\ environ' = st.env
           /\ cinit' = IF missing # << >>
                       THEN [cinit EXCEPT !.pc = "failed", !.resolved = TRUE,
                                !.creds = [NoCreds EXCEPT !.access_key = st.access_key,
                                              !.secret_key = st.secret_key, !.region = st.region],
                                !.error = [type |-> "ValueError",
                                           msg |-> <<"Missing required AWS environment variables: ">>
                                                       \o join(missing)]]
                       ELSE [cinit EXCEPT !.pc = "constructed", !.resolved = TRUE,
                                !.creds = [NoCreds EXCEPT !.access_key = st.access_key,
                                              !.secret_key = st.secret_key, !.region = st.region],
                                !.handle = TRUE]
    /\ UNCHANGED <<cls, provider, bucket_name, account_name, args, files, az, container, opvars>>

\* CloudStorageHandler._init_gcs_handler: the client library accepts the
\* credentials or raises
init_gcs_handler ==
    /\ cinit.pc = "bucket" /\ provider = "google"
    /\ LET st == GcsResolve(environ, files)
       IN  /\ environ' = st.env
           /\ \E ok \in BOOLEAN :
                 cinit' = IF ok
                          THEN [cinit EXCEPT !.pc = "constructed", !.resolved = TRUE,
                                   !.creds = [NoCreds EXCEPT !.credentials_path = st.credentials_path],
                                   !.handle = TRUE]
                          ELSE [cinit EXCEPT !.pc = "failed", !.resolved = TRUE,
                                   !.creds = [NoCreds EXCEPT !.credentials_path = st.credentials_path],
                                   !.error = [type |-> "Exception", msg |-> <<"credentials rejected">>]]
    /\ UNCHANGED <<cls, provider, bucket_name, account_name, args, files, az, container, opvars>>

\* CloudStorageHandler._init_azure_handler up to the container client
init_azure_handler ==
    /\ cinit.pc = "bucket" /\ provider = "azure"
    /\ LET st == AzureResolve(bucket_name, environ, files)
           missing == AzureMissing(st.account_name, st.account_key)
       IN  /\ environ' = st.env
           /\ account_name' = st.account_name
           /\ IF missing # << >>
              THEN /\ cinit' = [cinit EXCEPT !.pc = "failed", !.resolved = TRUE,
                                   !.creds = [NoCreds EXCEPT !.account_key = st.account_key],
                                   !.container_name = st.container_name,
                                   !.error = [type |-> "ValueError",
                                              msg |-> <<"Missing required Azure environment variables: ">>
                                                          \o join(missing)
                                                          \o <<". Please set these in your .env file or environment.">>]]
                   /\ UNCHANGED az
              ELSE /\ cinit' = [cinit EXCEPT !.pc = "azure", !.resolved = TRUE,
                                   !.creds = [NoCreds EXCEPT !.account_key = st.account_key],
                                   !.container_name = st.container_name,
                                   !.handle = TRUE]
                   /\ az' = [az EXCEPT ![1].pc = "check"]
    /\ UNCHANGED <<cls, provider, bucket_name, args, files, container, opvars>>

\* a second Azure construction for the same container, run at the same time,
\* reaches its container check
peer_begin ==
    /\ az[2].pc = "idle"
    /\ az[1].pc \in {"check", "create"}
    /\ az' = [az EXCEPT ![2].pc = "check"]
    /\ UNCHANGED <<cls, provider, bucket_name, environ, account_name, args, files, cinit,
                   container, opvars>>

\* the end of the Azure stage of construction p
AzureEnds(p, result) ==
    IF p = 1
    THEN cinit' = IF result = "constructed"
                  THEN [cinit EXCEPT !.pc = "constructed"]
                  ELSE [cinit EXCEPT !.pc = "failed",
                                     !.error = [type |-> "Exception",
                                                msg |-> <<"create_container failed">>]]
    ELSE UNCHANGED cinit

\* _init_azure_handler: container_client.get_container_properties()
azure_check(p) ==
    /\ az[p].pc = "check"
    /\ \E chk \in {IF container THEN "ok" ELSE "notfound", "error"} :
          IF AfterCheck(chk) = "use"
          THEN /\ az' = [az EXCEPT ![p].pc = "done", ![p].chk = chk, ![p].outcome = "ok"]
               /\ AzureEnds(p, "constructed")
          ELSE /\ az' = [az EXCEPT ![p].pc = "create", ![p].chk = chk]
               /\ UNCHANGED cinit
    /\ UNCHANGED <<cls, provider, bucket_name, environ, account_name, args, files,
                   container, opvars>>

\* _init_azure_handler: container_client.create_container()
azure_create(p) ==
    /\ az[p].pc = "create"
    /\ \E crt \in {IF container THEN "exists" ELSE "ok", "error"} :
          /\ container' = (container \/ crt = "ok")
          /\ az' = [az EXCEPT ![p].pc = "done", ![p].crt = crt,
                              ![p].creates = az[p].creates + 1,
                              ![p].outcome = IF AfterCreate(crt) = "constructed"
                                             THEN "ok" ELSE "raise"]
          /\ AzureEnds(p, AfterCreate(crt))
    /\ UNCHANGED <<cls, provider, bucket_name, environ, account_name, args, files, opvars>>

NextCtor ==
    \/ s3_init_bucket
    \/ init_provider
    \/ init_test_mode
    \/ init_bucket
    \/ init_aws_handler
    \/ init_gcs_handler
    \/ init_azure_handler
    \/ peer_begin
    \/ \E p \in Constructors : azure_check(p)
    \/ \E p \in Constructors : azure_create(p)

SpecCtor == InitCtor /\ [][NextCtor]_vars

TypeOK ==
    /\ pc \in {"idle", "uf_begin", "uf_put", "vf_probe", "vf_sleep", "vf_ret",
               "ufs_loop", "df_makedirs", "df_get", "done"}
    /\ op \in {"none", "verify", "upload_file", "upload_files", "download_file"}
    /\ vret \in {"none", "true", "false", "raise"}
    /\ ret.kind \in {"none", "value", "raise", "list"}

\* ================================================================ claims
\* helpers used to state the claims
RECURSIVE lstrip(_, _)
lstrip(s, c) == IF Len(s) > 0 /\ s[1] = c THEN lstrip(Tail(s), c) ELSE s
Trim(s) == lstrip(rstrip(s, SLASH), SLASH)

RECURSIVE LastComponent(_)
LastComponent(p) ==
    IF \E j \in 1..Len(p) : p[j] = SLASH THEN LastComponent(Tail(p)) ELSE p

\* name with "_n" inserted in front of its extension (the part from the last dot on)
WithIndex(name, n) ==
    LET dots == {j \in 2..Len(name) : name[j] = DOT}
        d == IF dots = {} THEN Len(name) + 1 ELSE CHOOSE j \in dots : \A h \in dots : h <= j
    IN  SubSeq(name, 1, d - 1) \o <<"_">> \o IntToStr(n) \o SubSeq(name, d, Len(name))

EndsWith(s, suffix) ==
    Len(s) >= Len(suffix) /\ SubSeq(s, Len(s) - Len(suffix) + 1, Len(s)) = suffix

UploadFailed == ~fileOk \/ putRes = "err" \/ (putRes = "ok" /\ ~probeHit)
DownloadFailed == mkdirRes # "ok" \/ getRes # "ok"
EntryFailed(e) == ~e.exists \/ e.put = "err" \/ (e.put = "ok" /\ ~e.verified)

\* emprops_nodes.combine_video: the URLs of the successful uploads
successful_urls(upload_results) ==
    LET ok == SelectSeq(upload_results, LAMBDA r : r.ok)
    IN  [j \in 1..Len(ok) |-> ok[j].msg]

\* C1: upload_file reports success only if its put completed and a later
\* existence probe of the key succeeded; a completed put without a successful
\* probe gives a returned flag of false (both classes, also inside upload_files).
C1_SuccessOnlyWhenVerified ==
    /\ (pc = "done" /\ op = "upload_file") =>
          /\ (ret.kind = "value" /\ ret.ok) => (puts = 1 /\ putRes = "ok" /\ probeHit)
          /\ (putRes = "ok" /\ ~probeHit) => (ret.kind = "value" /\ ~ret.ok)
    /\ (op = "upload_files") =>
          \A j \in 1..Len(results) :
             /\ results[j].ok => (log[j].put = "ok" /\ log[j].verified)
             /\ (log[j].put = "ok" /\ ~log[j].verified) => ~results[j].ok

C1_Witness ==
    /\ pc = "done" /\ op = "upload_file" /\ cls = "CloudStorageHandler"
    /\ putRes = "ok" /\ ~probeHit /\ probes = DefaultMaxAttempts
    /\ ret.kind = "value" /\ ~ret.ok

\* C2 (as stated): the verification loop called with N >= 1 attempts against a
\* probe that never succeeds issues exactly N probes and returns false without
\* raising, in both classes.
C2_ExhaustedReturnsFalse ==
    (pc = "done" /\ op = "verify" /\ max_attempts >= 1 /\ plan.never) =>
        (probes = max_attempts /\ ret = Value(FALSE, << >>))

\* C3: against a probe that fails exactly k < N times and then succeeds, the
\* verification loop returns true after exactly k+1 probes and k sleeps.
C3_StopsAtFirstPositiveProbe ==
    ((pc = "vf_ret" \/ (pc = "done" /\ op = "verify"))
        /\ ~plan.never /\ plan.k < max_attempts) =>
        /\ vret = "true"
        /\ probes = plan.k + 1
        /\ sleeps = plan.k
        /\ (pc = "done" => ret = Value(TRUE, << >>))

C3_Witness ==
    /\ pc = "done" /\ op = "verify"
    /\ ~plan.never /\ plan.k = 2 /\ max_attempts = 3
    /\ probes = 3 /\ sleeps = 2 /\ ret.ok

\* C4: one upload_file (download_file) call issues at most one put (get); a
\* failed put or get ends the call at once with a failure result, and no
\* existence probe is issued after a failed put.
C4_NoRetryOfPutOrGet ==
    /\ puts <= 1 /\ gets <= 1
    /\ (putRes = "err") =>
          /\ probes = 0
          /\ op = "upload_file" => (pc = "done" /\ ret.kind = "value" /\ ~ret.ok)
          /\ op = "upload_files" =>
                (pc \in {"ufs_loop", "done"} /\ i = Len(results) /\ i >= 1 /\ ~results[i].ok)
    /\ (getRes = "err") => (pc = "done" /\ ret.kind = "value" /\ ~ret.ok)

C4_Witness ==
    /\ pc = "done" /\ op = "upload_file" /\ putRes = "err"
    /\ puts = 1 /\ probes = 0 /\ ~ret.ok

\* C5 (as stated): no call to upload_file, upload_files or download_file
\* raises to its caller.
C5_NeverRaises ==
    (pc = "done" /\ op \in {"upload_file", "upload_files", "download_file"}) =>
        ret.kind # "raise"

\* C5 (amended): upload_file and download_file never raise, upload_files
\* raises exactly when its file_paths argument is not a list, and every
\* failure of a per-file operation is returned as (False, message).
C5_FailuresAreResults ==
    (pc = "done") =>
        /\ (op = "upload_file") =>
              (ret.kind = "value" /\ (UploadFailed => (~ret.ok /\ ret.msg # << >>)))
        /\ (op = "download_file") =>
              (ret.kind = "value" /\ (DownloadFailed => (~ret.ok /\ ret.msg # << >>)))
        /\ (op = "upload_files") =>
              /\ (ret.kind = "raise") <=> ~file_paths.isList
              /\ file_paths.isList =>
                    /\ ret.kind = "list"
                    /\ \A j \in 1..Len(results) :
                          /\ results[j].kind = "value"
                          /\ EntryFailed(log[j]) => (~results[j].ok /\ results[j].msg # << >>)

C5_Witness ==
    /\ pc = "done" /\ op = "upload_file" /\ cls = "S3Handler"
    /\ putRes = "ok" /\ vret = "raise"
    /\ ret = Value(FALSE, <<ProbeError>>)

\* C6: upload_file of a local path that does not exist returns (False,
\* "File not found: <path>") without a put or a probe; upload_files goes on
\* with the remaining paths.
C6_MissingFileIsSoftFailure ==
    /\ (pc = "done" /\ op = "upload_file"
            /\ cur.file_path \notin LocalFiles /\ cur.file_path # NoneArg) =>
          (ret = NotFound(cur.file_path) /\ puts = 0 /\ probes = 0)
    /\ (op = "upload_files" /\ pc = "ufs_loop" /\ i >= 1
            /\ file_paths.items[i] \notin LocalFiles) =>
          (puts = 0 /\ probes = 0 /\ Len(results) = i
              /\ results[i] = NotFound(file_paths.items[i]))
    /\ (op = "upload_files" /\ pc = "done" /\ file_paths.isList) =>
          /\ Len(results) = Len(file_paths.items)
          /\ \A j \in 1..Len(file_paths.items) :
                file_paths.items[j] \notin LocalFiles =>
                    results[j] = NotFound(file_paths.items[j])

C6_Witness ==
    /\ pc = "done" /\ op = "upload_files"
    /\ file_paths.items = <<GONE_PNG, A_PNG>>
    /\ results[1] = NotFound(GONE_PNG)
    /\ results[2].ok

\* C7 (as stated): for every prefix the key built by upload_file has no "//",
\* does not start with "/", and a non-empty prefix contributes exactly one
\* separator between prefix and filename (both classes).
C7_KeyHasNoExtraSlash ==
    (pc = "uf_put") =>
        /\ ~HasDoubleSlash(key)
        /\ ~startswith(key, SLASH)
        /\ key = IF Trim(cur.prefix) # << >>
                 THEN Trim(cur.prefix) \o <<SLASH>> \o filename
                 ELSE filename

\* C8: upload_files with a one-element list uploads the file under its
\* unmodified filename; with more than one element, element i is uploaded
\* under its filename with "_i" inserted before the extension.
C8_BatchNames ==
    (op = "upload_files" /\ pc = "uf_put") =>
        LET n == Len(file_paths.items)
            name == LastComponent(file_paths.items[i + 1])
        IN  /\ filename = IF n = 1 THEN name ELSE WithIndex(name, i)
            /\ key = IF batch_prefix = None THEN filename
                     ELSE batch_prefix \o <<SLASH>> \o filename

C8_Witness ==
    /\ pc = "done" /\ op = "upload_files"
    /\ file_paths.items = <<A_PNG, B_PNG>> /\ batch_prefix = None
    /\ results[1] = Value(TRUE, <<"https://">> \o DefaultBucket \o <<".s3.amazonaws.com/">>
                                  \o <<"a", "_", "0", ".", "p", "n", "g">>)
    /\ results[2] = Value(TRUE, <<"https://">> \o DefaultBucket \o <<".s3.amazonaws.com/">>
                                  \o <<"b", "_", "1", ".", "p", "n", "g">>)

\* C9 (as stated): with an explicit target name and a non-null index the
\* stored filename is exactly the target name (both classes).
C9_TargetNameKeepsNoIndex ==
    (pc = "uf_put" /\ cur.target_name # None /\ cur.index # None) =>
        filename = cur.target_name

\* C10: upload_files returns one result per input path in input order, and
\* the result of an element is decided by that element alone: a failure
\* neither stops the later uploads nor changes the earlier results.
C10_BatchResultsIndependent ==
    (op = "upload_files" /\ file_paths.isList) =>
        /\ Len(results) = i /\ Len(log) = i /\ i <= Len(file_paths.items)
        /\ (pc = "done") => Len(results) = Len(file_paths.items)
        /\ \A j \in 1..Len(results) :
              /\ log[j].path = file_paths.items[j]
              /\ results[j].ok = ~EntryFailed(log[j])
              /\ ~log[j].exists => results[j] = NotFound(file_paths.items[j])
              /\ results[j].ok =>
                    EndsWith(results[j].msg,
                             IF Len(file_paths.items) = 1
                             THEN LastComponent(file_paths.items[j])
                             ELSE WithIndex(LastComponent(file_paths.items[j]), j - 1))
        /\ Len(successful_urls(results)) = Cardinality({j \in 1..Len(log) : ~EntryFailed(log[j])})

C10_Witness ==
    /\ pc = "done" /\ op = "upload_files"
    /\ Len(file_paths.items) = 2
    /\ ~results[1].ok /\ log[1].put = "err"
    /\ results[2].ok

\* C14 (as stated): the URL of a successful upload is the provider template
\* applied to the names the client resolved at construction and the key; for
\* Azure the account is the account name resolved at construction, whatever
\* is read after construction.
C14_UrlFromResolvedNames ==
    (pc = "done" /\ op = "upload_file" /\ ret.ok) =>
        ret.msg = IF cls = "S3Handler" \/ provider = "aws"
                  THEN <<"https://">> \o bucket_name \o <<".s3.amazonaws.com/">> \o key
                  ELSE IF provider = "google"
                  THEN <<"https://storage.googleapis.com/">> \o bucket_name \o <<SLASH>> \o key
                  ELSE <<"https://">> \o account_name \o <<".blob.core.windows.net/">>
                           \o bucket_name \o <<SLASH>> \o key

\* C15 (as stated): download_file, for a path with a missing parent, with an
\* existing parent and for a bare filename, first makes sure the parent
\* directory exists and then issues the backend get exactly once (the case of
\* a directory that cannot be created is left out).
C15_DownloadEnsuresParentThenGets ==
    (pc = "done" /\ op = "download_file" /\ dl.local_path # NoneArg
        /\ ret # DownloadExcept(cls, MkdirError)) =>
        /\ dirname(abspath(dl.local_path)) \in dirs
        /\ mkdirRes = "ok"
        /\ gets = 1

\* C19 (as stated): an upload whose put succeeded and whose verification was
\* exhausted is reported with its own "Failed to verify ..." message, never
\* through the generic error path of a failed put (both classes).
VerifyFailureTexts ==
    {"Failed to verify upload of ", "Failed to verify AWS S3 upload",
     "Failed to verify Google Cloud Storage upload", "Failed to verify Azure Blob Storage upload"}

C19_VerifyFailureIsDistinct ==
    (pc = "done" /\ op = "upload_file" /\ putRes = "ok" /\ ~probeHit) =>
        /\ ret.kind = "value" /\ ~ret.ok
        /\ ret.msg[1] \in VerifyFailureTexts
        /\ \A e \in {PutError, ProbeError, TypeErrorText} : ret # UploadExcept(cls, e)

\* ------------------------------------------------- claims on construction
Range(q) == {q[j] : j \in 1..Len(q)}

\* C11: a construction for the S3 or Azure provider whose credential
\* resolution leaves a required field empty fails with an error that names
\* every empty field, and no backend client handle is created; a handle is
\* only ever created with all required fields present.
C11_MissingCredentialsFailClosed ==
    /\ (cinit.handle /\ provider = "aws") =>
          (cinit.creds.access_key # None /\ cinit.creds.secret_key # None)
    /\ (cinit.handle /\ provider = "azure") =>
          (account_name # None /\ cinit.creds.account_key # None)
    /\ (cinit.resolved /\ provider = "aws") =>
          LET empty == {n \in {"AWS_ACCESS_KEY_ID", "AWS_SECRET_ACCESS_KEY"} :
                           \/ n = "AWS_ACCESS_KEY_ID" /\ cinit.creds.access_key = None
                           \/ n = "AWS_SECRET_ACCESS_KEY" /\ cinit.creds.secret_key = None}
          IN  IF empty # {}
              THEN /\ cinit.pc = "failed" /\ ~cinit.handle
                   /\ cinit.error.type = "ValueError"
                   /\ empty \subseteq Range(cinit.error.msg)
              ELSE cinit.pc = "constructed" /\ cinit.handle
    /\ (cinit.resolved /\ provider = "azure") =>
          LET empty == {n \in {"AZURE_STORAGE_ACCOUNT", "AZURE_STORAGE_KEY"} :
                           \/ n = "AZURE_STORAGE_ACCOUNT" /\ account_name = None
                           \/ n = "AZURE_STORAGE_KEY" /\ cinit.creds.account_key = None}
          IN  IF empty # {}
              THEN /\ cinit.pc = "failed" /\ ~cinit.handle
                   /\ cinit.error.type = "ValueError"
                   /\ empty \subseteq Range(cinit.error.msg)
                   /\ az[1].pc = "idle"
              ELSE cinit.handle /\ cinit.error.type # "ValueError"

C11_Witness ==
    /\ cinit.pc = "failed" /\ cls = "S3Handler"
    /\ files.env.exists /\ files.env_local.exists
    /\ cinit.creds.access_key = None /\ cinit.creds.secret_key = None
    /\ cinit.error = [type |-> "ValueError",
                      msg |-> <<"Missing required AWS environment variables: ",
                                "AWS_ACCESS_KEY_ID", ", ", "AWS_SECRET_ACCESS_KEY">>]

\* C12 (as stated): the S3 secret key is the first value found in the order
\* environment plain, environment encoded, .env plain, .env encoded,
\* .env.local plain, .env.local encoded: the environment wins over the files
\* and in every source the encoded variant is used only when the plain one is
\* absent.
ClaimedSecret(env, fs) ==
    Or(env["AWS_SECRET_ACCESS_KEY"],
    Or(_process_secret_key(env["AWS_SECRET_ACCESS_KEY_ENCODED"]),
    Or(fs.env.vars["AWS_SECRET_ACCESS_KEY"],
    Or(_process_secret_key(fs.env.vars["AWS_SECRET_ACCESS_KEY_ENCODED"]),
    Or(fs.env_local.vars["AWS_SECRET_ACCESS_KEY"],
       _process_secret_key(fs.env_local.vars["AWS_SECRET_ACCESS_KEY_ENCODED"]))))))

C12_SecretPrecedence ==
    (cinit.resolved /\ provider = "aws") =>
        cinit.creds.secret_key = ClaimedSecret(cinit.environ0, files)

\* C13 (as stated): an Azure construction makes no create-container call when
\* the container exists, exactly one when it does not exist (the outcome of
\* that call deciding the construction), and attempts a create only on a
\* not-found outcome of the existence check.
C13_CreateOnlyOnNotFound ==
    \A p \in Constructors :
        (az[p].pc = "done") =>
            /\ az[p].chk = "ok" => (az[p].creates = 0 /\ az[p].outcome = "ok")
            /\ az[p].chk = "notfound" =>
                  (az[p].creates = 1 /\ (az[p].outcome = "ok" <=> az[p].crt = "ok"))
            /\ az[p].creates > 0 => az[p].chk = "notfound"

\* C16 (as stated): the Azure container is the explicit bucket name argument,
\* else CLOUD_STORAGE_CONTAINER, else AZURE_STORAGE_CONTAINER.
C16_ContainerPrecedence ==
    (cinit.resolved /\ provider = "azure") =>
        /\ args.bucket_name # None => cinit.container_name = args.bucket_name
        /\ (args.bucket_name = None /\ cinit.environ0["CLOUD_STORAGE_CONTAINER"] # None) =>
              cinit.container_name = cinit.environ0["CLOUD_STORAGE_CONTAINER"]
        /\ (args.bucket_name = None /\ cinit.environ0["CLOUD_STORAGE_CONTAINER"] = None
                /\ cinit.environ0["AZURE_STORAGE_CONTAINER"] # None) =>
              cinit.container_name = cinit.environ0["AZURE_STORAGE_CONTAINER"]

\* C17 (as stated): for every provider and every combination of
\* STORAGE_TEST_MODE and CLOUD_STORAGE_TEST_CONTAINER, the constructor of
\* CloudStorageHandler resolves the bucket name without fault: an explicit
\* name unchanged, else the default with "-test" appended exactly when
\* STORAGE_TEST_MODE is true.
C17_BucketNameResolved ==
    (cls = "CloudStorageHandler" /\ cinit.pc \notin {"new", "provider", "test_mode"}) =>
        /\ cinit.error.type # "AttributeError"
        /\ bucket_name =
              IF args.bucket_name # None THEN args.bucket_name
              ELSE IF lower(Or(cinit.environ0["STORAGE_TEST_MODE"], << >>)) = TRUE_STR
              THEN DefaultBucket \o <<"-test">>
              ELSE DefaultBucket

\* C18 (as stated): when two Azure constructions for the same missing
\* container both observe not-found and both call create, the one whose
\* create call receives "already exists" still succeeds.
C18_ConcurrentCreateTolerated ==
    (/\ \A p \in Constructors : az[p].pc = "done" /\ az[p].chk = "notfound" /\ az[p].creates = 1
     /\ \E p \in Constructors : az[p].crt = "ok"
     /\ \E p \in Constructors : az[p].crt = "exists") =>
        \A p \in Constructors : az[p].outcome = "ok"
====
